---------------------------- MODULE Spec2Model ----------------------------
(***************************************************************************)
(* A model of jello's two text producers, src/jello/lib.py:                *)
(*   Schema.create_schema / Schema._schema_gen  (the schema flattener)     *)
(*   Json.create_json                           (the output formatter)     *)
(*                                                                         *)
(* A text is a sequence of one-character strings, so that quoting,         *)
(* escaping, padding, joining and stripping are computed and not assumed.  *)
(* A decoded JSON value is a tagged record:                                *)
(*   [t |-> "null"]   [t |-> "bool", b]   [t |-> "num", n]  (an int)       *)
(*   [t |-> "str", s]  (s a text)                                          *)
(*   [t |-> "list", items]   (a sequence of values)                        *)
(*   [t |-> "dict", items]   (a sequence of <<key, value>>, insertion      *)
(*                            order, key a text)                           *)
(*   [t |-> "foreign"]  (a Python object json cannot serialize, a set)     *)
(***************************************************************************)
EXTENDS Integers, Sequences, FiniteSets, TLC

VARIABLES
    opts,          \* class opts: the flags the two components read
    data,          \* the value handed to the call
    pc,            \* "call": the call is to be made, "done": it has ended
    out,           \* how the call ended: a returned text or a raised error
    _schema_list,  \* Schema._schema_list, buffer of the Schema instance
    calls,         \* number of create_schema calls made on the instance
    ref,           \* an earlier call on the instance: its input and result
    th             \* the two concurrent create_schema calls

vars == <<opts, data, pc, out, _schema_list, calls, ref, th>>

-----------------------------------------------------------------------------
(* Bounds of the model *)

\* longest list and largest dict among the generated inputs
MaxLen == 2

\* number of sequential create_schema calls followed on one instance
MaxCalls == 3

-----------------------------------------------------------------------------
(* Characters and texts *)

QUOTE == "\""
BSL == "\\"
NL == "\n"
SP == " "

Whitespace == {SP, NL}

Digits == <<"0", "1", "2", "3", "4", "5", "6", "7", "8", "9">>

DigitSet == {Digits[i] : i \in 1..10}

\* ' ' * n ; a negative n gives the empty text as in Python
Repeat(c, n) == [i \in 1..n |-> c]

\* len(text)
len(text) == Len(text)

RECURSIVE NatText(_)
NatText(n) ==
    IF n < 10 THEN <<Digits[n + 1]>>
    ELSE NatText(n \div 10) \o <<Digits[(n % 10) + 1]>>

\* str(int) and json.dumps(int)
IntText(n) == IF n < 0 THEN <<"-">> \o NatText(-n) ELSE NatText(n)

\* str.replace('\n', '\\n')
RECURSIVE ReplaceNewline(_)
ReplaceNewline(s) ==
    IF s = <<>> THEN <<>>
    ELSE (IF Head(s) = NL THEN <<BSL, "n">> ELSE <<Head(s)>>)
             \o ReplaceNewline(Tail(s))

\* str.rstrip(): trailing whitespace removed
RECURSIVE rstrip(_)
rstrip(text) ==
    IF text = <<>> THEN <<>>
    ELSE IF text[Len(text)] \in Whitespace
         THEN rstrip(SubSeq(text, 1, Len(text) - 1))
         ELSE text

\* sep.join(lines)
RECURSIVE join(_, _)
join(sep, lines) ==
    IF lines = <<>> THEN <<>>
    ELSE IF Len(lines) = 1 THEN lines[1]
    ELSE lines[1] \o sep \o join(sep, Tail(lines))

-----------------------------------------------------------------------------
(* Values *)

Null == [t |-> "null"]
Bool(b) == [t |-> "bool", b |-> b]
Num(n) == [t |-> "num", n |-> n]
Str(s) == [t |-> "str", s |-> s]
List(items) == [t |-> "list", items |-> items]
Dict(items) == [t |-> "dict", items |-> items]
Foreign == [t |-> "foreign"]

\* isinstance(v, list) and isinstance(v, dict)
IsList(v) == v.t = "list"
IsDict(v) == v.t = "dict"

\* the sub-values of a container, in order
Children(v) ==
    IF v.t = "list" THEN v.items
    ELSE IF v.t = "dict" THEN [i \in 1..Len(v.items) |-> v.items[i][2]]
    ELSE <<>>

\* whether json's encoder meets an object it cannot serialize in v
RECURSIVE HasForeign(_)
HasForeign(v) ==
    \/ v.t = "foreign"
    \/ \E i \in 1..Len(Children(v)) : HasForeign(Children(v)[i])

-----------------------------------------------------------------------------
(* json.dumps(..., ensure_ascii=False) of a serializable value *)

\* the JSON string literal of s: the quote, the backslash and the newline
\* are escaped
RECURSIVE EscapeBody(_)
EscapeBody(s) ==
    IF s = <<>> THEN <<>>
    ELSE (CASE Head(s) = QUOTE -> <<BSL, QUOTE>>
            [] Head(s) = BSL -> <<BSL, BSL>>
            [] Head(s) = NL -> <<BSL, "n">>
            [] OTHER -> <<Head(s)>>)
         \o EscapeBody(Tail(s))

DumpsStr(s) == <<QUOTE>> \o EscapeBody(s) \o <<QUOTE>>

\* '\n' + ' ' * (indent * level) when indent is given (ind >= 0), else ''
NewlineIndent(ind, lvl) ==
    IF ind < 0 THEN <<>> ELSE <<NL>> \o Repeat(SP, ind * lvl)

\* isep and ksep are the item and the key separator, ind the indent
\* (-1 for None), lvl the nesting level
RECURSIVE Dumps(_, _, _, _, _)
Dumps(v, isep, ksep, ind, lvl) ==
    CASE v.t = "null" -> <<"n", "u", "l", "l">>
      [] v.t = "bool" -> IF v.b THEN <<"t", "r", "u", "e">>
                         ELSE <<"f", "a", "l", "s", "e">>
      [] v.t = "num" -> IntText(v.n)
      [] v.t = "str" -> DumpsStr(v.s)
      [] v.t = "list" ->
           IF v.items = <<>> THEN <<"[", "]">>
           ELSE <<"[">> \o NewlineIndent(ind, lvl + 1)
                \o join(isep \o NewlineIndent(ind, lvl + 1),
                        [i \in 1..Len(v.items) |->
                            Dumps(v.items[i], isep, ksep, ind, lvl + 1)])
                \o NewlineIndent(ind, lvl) \o <<"]">>
      [] v.t = "dict" ->
           IF v.items = <<>> THEN <<"{", "}">>
           ELSE <<"{">> \o NewlineIndent(ind, lvl + 1)
                \o join(isep \o NewlineIndent(ind, lvl + 1),
                        [i \in 1..Len(v.items) |->
                            DumpsStr(v.items[i][1]) \o ksep
                            \o Dumps(v.items[i][2], isep, ksep, ind, lvl + 1)])
                \o NewlineIndent(ind, lvl) \o <<"}">>

\* how a call ends
Return(text) == [kind |-> "return", text |-> text]
Raise(err) == [kind |-> "raise", err |-> err]
NoOut == [kind |-> "none"]

\* json.dumps(v, separators=separators, indent=indent, ensure_ascii=False);
\* separators None gives (', ', ': ') without indent and (',', ': ') with
json_dumps(v, compactSeps, ind) ==
    IF HasForeign(v) THEN Raise("TypeError")
    ELSE Return(Dumps(v,
                      IF compactSeps \/ ind >= 0 THEN <<",">> ELSE <<",", SP>>,
                      IF compactSeps THEN <<":">> ELSE <<":", SP>>,
                      ind, 0))

-----------------------------------------------------------------------------
(* Json.create_json *)

\* a variant that looks at the first item only
list_includes_list_first_only(items) == items # <<>> /\ IsList(items[1])

\* the check "if this list includes lists"
list_includes_list(items) == \E i \in 1..Len(items) : IsList(items[i])

\* what one entry of a flat list adds to flat_list: a text, or the error
\* json.dumps raises on it; an entry no branch takes adds nothing
LinesEntry(entry, o) ==
    CASE entry.t = "null" ->
           Return(IF o.nulls THEN <<"n", "u", "l", "l", NL>> ELSE <<NL>>)
      [] entry.t \in {"dict", "bool", "num"} ->
           LET r == json_dumps(entry, TRUE, -1)
           IN  IF r.kind = "raise" THEN r ELSE Return(r.text \o <<NL>>)
      [] entry.t = "str" ->
           LET e == ReplaceNewline(entry.s)
           IN  IF o.raw THEN Return(e \o <<NL>>)
               ELSE Return(<<QUOTE>> \o e \o <<QUOTE, NL>>)
      [] OTHER -> Return(<<>>)

\* the loop "for entry in data" over a flat list, from flat_list = acc
RECURSIVE LinesLoop(_, _, _)
LinesLoop(items, acc, o) ==
    IF items = <<>> THEN Return(rstrip(acc))
    ELSE LET r == LinesEntry(Head(items), o)
         IN  IF r.kind = "raise" THEN r
             ELSE LinesLoop(Tail(items), acc \o r.text, o)

create_json(d, o) ==
    LET compactSeps == o.compact \/ o.lines
        indent == IF o.compact \/ o.lines THEN -1 ELSE 2
    IN  CASE d.t = "dict" -> json_dumps(d, compactSeps, indent)
          [] d.t = "list" ->
               IF ~o.lines THEN json_dumps(d, compactSeps, indent)
               ELSE IF list_includes_list(d.items) THEN Raise("ValueError")
               ELSE LinesLoop(d.items, <<>>, o)
          [] d.t = "null" ->
               IF o.nulls THEN Return(<<"n", "u", "l", "l">>) ELSE Return(<<>>)
          [] d.t \in {"bool", "num"} -> json_dumps(d, FALSE, -1)
          [] d.t = "str" ->
               LET e == ReplaceNewline(d.s)
               IN  IF o.raw THEN Return(e)
                   ELSE Return(<<QUOTE>> \o e \o <<QUOTE>>)
          [] OTHER -> Raise("TypeError")

-----------------------------------------------------------------------------
(* Schema._schema_gen and Schema.create_schema *)

\* column arithmetic of the two padding rules
MemberBudget == 70
MemberColumn == 69
TerminalBudget == 70
TerminalColumn == 70

\* repr(str): single quotes (no text of the model holds one), the backslash
\* and the newline escaped
RECURSIVE ReprBody(_)
ReprBody(s) ==
    IF s = <<>> THEN <<>>
    ELSE (CASE Head(s) = BSL -> <<BSL, BSL>>
            [] Head(s) = NL -> <<BSL, "n">>
            [] OTHER -> <<Head(s)>>)
         \o ReprBody(Tail(s))

ReprStr(s) == <<"'">> \o ReprBody(s) \o <<"'">>

\* f'{src}' of a value: Python's own rendering, not JSON
RECURSIVE PyRepr(_)
PyRepr(v) ==
    CASE v.t = "null" -> <<"N", "o", "n", "e">>
      [] v.t = "bool" -> IF v.b THEN <<"T", "r", "u", "e">>
                         ELSE <<"F", "a", "l", "s", "e">>
      [] v.t = "num" -> IntText(v.n)
      [] v.t = "str" -> ReprStr(v.s)
      [] v.t = "list" ->
           <<"[">> \o join(<<",", SP>>,
                           [i \in 1..Len(v.items) |-> PyRepr(v.items[i])])
           \o <<"]">>
      [] v.t = "dict" ->
           <<"{">> \o join(<<",", SP>>,
                           [i \in 1..Len(v.items) |->
                               ReprStr(v.items[i][1]) \o <<":", SP>>
                               \o PyRepr(v.items[i][2])])
           \o <<"}">>

\* str.isdigit(): not empty and digits only
isdigit(text) == text # <<>> /\ \A i \in 1..Len(text) : text[i] \in DigitSet

\* str.replace('.', '', 1): the first '.' removed
RECURSIVE RemoveFirstDot(_)
RemoveFirstDot(text) ==
    IF text = <<>> THEN <<>>
    ELSE IF Head(text) = "." THEN Tail(text)
    ELSE <<Head(text)>> \o RemoveFirstDot(Tail(text))

TypeComment(kind) == <<"/", "/", SP, "(">> \o kind \o <<")">>

\* a variant that classifies the content of a string literal, its quotes
\* taken off
val_type_of_content(val) ==
    LET c == IF Len(val) >= 2 /\ val[1] = QUOTE
             THEN SubSeq(val, 2, Len(val) - 1) ELSE val
    IN  IF c = <<"t", "r", "u", "e">> \/ c = <<"f", "a", "l", "s", "e">>
        THEN TypeComment(<<"b", "o", "o", "l", "e", "a", "n">>)
        ELSE IF c = <<"n", "u", "l", "l">>
        THEN TypeComment(<<"n", "u", "l", "l">>)
        ELSE IF isdigit(RemoveFirstDot(c))
        THEN TypeComment(<<"n", "u", "m", "b", "e", "r">>)
        ELSE TypeComment(<<"s", "t", "r", "i", "n", "g">>)

\* the type comment chosen from the rendered literal val
val_type_of(val) ==
    IF val = <<"t", "r", "u", "e">> \/ val = <<"f", "a", "l", "s", "e">>
    THEN <<"/", "/", SP, "(", "b", "o", "o", "l", "e", "a", "n", ")">>
    ELSE IF val = <<"n", "u", "l", "l">>
    THEN <<"/", "/", SP, "(", "n", "u", "l", "l", ")">>
    ELSE IF isdigit(RemoveFirstDot(val))
    THEN <<"/", "/", SP, "(", "n", "u", "m", "b", "e", "r", ")">>
    ELSE <<"/", "/", SP, "(", "s", "t", "r", "i", "n", "g", ")">>

\* padding of an object-member line: none unless opts.types
MemberPadding(path, k, val, val_type, o) ==
    IF ~o.types THEN <<>>
    ELSE IF len(path) + len(k) + len(val) + len(val_type) < MemberBudget
    THEN Repeat(SP, MemberColumn
                      - (len(path) + len(k) + len(val) + len(val_type)))
    ELSE <<SP, SP>>

\* padding of a terminal line: computed whatever opts.types is
TerminalPadding(path, val, val_type, o) ==
    IF len(path) + len(val) + len(val_type) < TerminalBudget
    THEN Repeat(SP, TerminalColumn - (len(path) + len(val) + len(val_type)))
    ELSE <<SP, SP>>

\* the line appended for the scalar member k: v of a dict reached at path
MemberLine(path, k, v, o) ==
    LET val == Dumps(v, <<",", SP>>, <<":", SP>>, -1, 0)
        val_type == IF o.types THEN val_type_of(val) ELSE <<>>
        padding == MemberPadding(path, k, val, val_type, o)
    IN  path \o <<".">> \o k \o <<SP, "=", SP>> \o val \o <<";">>
        \o padding \o val_type

\* the line appended for the scalar src reached at path
TerminalLine(path, src, o) ==
    LET val == Dumps(src, <<",", SP>>, <<":", SP>>, -1, 0)
        val_type == IF o.types THEN val_type_of(val) ELSE <<>>
        p == IF path = <<>> THEN <<".">> ELSE path
        padding == TerminalPadding(p, val, val_type, o)
    IN  p \o <<SP, "=", SP>> \o val \o <<";">> \o padding \o val_type

\* the steps of one activation of _schema_gen, in order: a recursive call
\* or an append to self._schema_list
CallOp(src, path) == [op |-> "call", src |-> src, path |-> path]
LineOp(text) == [op |-> "line", text |-> text]

\* for i, item in enumerate(items): self._schema_gen(item, prefix[i])
ItemCalls(items, prefix) ==
    [i \in 1..Len(items) |->
        CallOp(items[i], prefix \o <<"[">> \o NatText(i - 1) \o <<"]">>)]

\* what the loop over src.items() does for the member k: v (the
\* "if not opts.mono: k = f'{k}'" of the dict case leaves a text key as it is)
MemberOps(path, k, v, o) ==
    IF IsList(v) THEN ItemCalls(v.items, path \o <<".">> \o k)
    ELSE IF IsDict(v) THEN <<CallOp(v, path \o <<".">> \o k)>>
    ELSE <<LineOp(MemberLine(path, k, v, o))>>

RECURSIVE DictOps(_, _, _)
DictOps(path, items, o) ==
    IF items = <<>> THEN <<>>
    ELSE MemberOps(path, Head(items)[1], Head(items)[2], o)
         \o DictOps(path, Tail(items), o)

\* a variant that takes an empty list or dict for a scalar
SchemaBodyEmptyIsScalar(src, path, o) ==
    IF IsList(src) /\ src.items # <<>> /\ path = <<>>
    THEN ItemCalls(src.items, <<".">>)
    ELSE IF IsList(src) /\ src.items # <<>>
    THEN ItemCalls(src.items, path \o <<".">> \o PyRepr(src))
    ELSE IF IsDict(src) /\ src.items # <<>> THEN DictOps(path, src.items, o)
    ELSE <<LineOp(TerminalLine(path, src, o))>>

SchemaBody(src, path, o) ==
    IF IsList(src) /\ path = <<>> THEN ItemCalls(src.items, <<".">>)
    ELSE IF IsList(src)
    THEN ItemCalls(src.items, path \o <<".">> \o PyRepr(src))
    ELSE IF IsDict(src) THEN DictOps(path, src.items, o)
    ELSE <<LineOp(TerminalLine(path, src, o))>>

\* the lines that the pending steps todo append, in order
RECURSIVE RunOps(_, _)
RunOps(todo, o) ==
    IF todo = <<>> THEN <<>>
    ELSE IF Head(todo).op = "line"
    THEN <<Head(todo).text>> \o RunOps(Tail(todo), o)
    ELSE RunOps(SchemaBody(Head(todo).src, Head(todo).path, o) \o Tail(todo), o)

\* self._schema_gen(src, path): the buffer after the call
_schema_gen(buffer, src, path, o) ==
    buffer \o RunOps(<<CallOp(src, path)>>, o)

\* a variant that leaves the list as it is
BufferKept(buffer) == buffer

\* the buffer after "self._schema_list *= 0"
ClearedBuffer(buffer) == <<>>

\* create_schema(data) on an instance whose buffer is buffer: the list that
\* is joined, the text returned and the buffer left behind
create_schema(buffer, d, o) ==
    LET filled == _schema_gen(buffer, d, <<>>, o)
    IN  [kind |-> "return", lines |-> filled, text |-> join(<<NL>>, filled),
         buffer |-> ClearedBuffer(filled)]

-----------------------------------------------------------------------------
(* Inputs *)

\* the sequences over S of at most n elements
SeqsUpTo(S, n) == UNION {[1..k -> S] : k \in 0..n}

KeyK == <<"k">>
KeyJ == <<"j">>

Member(k, v) == <<k, v>>

\* strings handed to create_json: plain, empty, holding a double quote, a
\* backslash or a newline, ending in whitespace
JsonStrings ==
    {<<"a">>, <<>>, <<"a", QUOTE, "b">>, <<"a", BSL, "b">>,
     <<"a", NL, "b">>, <<"a", SP>>}

JsonScalars == {Null, Bool(TRUE), Num(1)} \cup {Str(s) : s \in JsonStrings}

JsonContainers ==
    {List(<<>>), List(<<Num(1)>>), Dict(<<>>),
     Dict(<<Member(KeyK, Num(1))>>),
     Dict(<<Member(KeyK, Str(<<"a", NL, "b">>))>>),
     Dict(<<Member(KeyK, List(<<Num(1), Null>>))>>)}

\* what the query step hands over when it produced something foreign
ForeignValues ==
    {Foreign, Dict(<<Member(KeyK, Foreign)>>), List(<<Foreign>>)}

JsonElements == JsonScalars \cup JsonContainers \cup ForeignValues

JsonInputs ==
    JsonElements
    \cup {List(items) : items \in SeqsUpTo(JsonElements, MaxLen)}
    \cup {Dict(<<Member(KeyK, Num(1)),
                 Member(KeyJ, List(<<Null, Bool(FALSE)>>))>>),
          Dict(<<Member(KeyK, List(<<Foreign>>))>>)}

Flags == [compact : BOOLEAN, nulls : BOOLEAN, raw : BOOLEAN,
          lines : BOOLEAN, types : BOOLEAN, mono : BOOLEAN]

JsonFlags == {o \in Flags : ~o.types /\ ~o.mono}

Instances == {1, 2}

\* Schema.__init__: self._schema_list = []
EmptyBuffers == [i \in Instances |-> <<>>]

NoRef == [set |-> FALSE]

NoThreads == <<>>

-----------------------------------------------------------------------------
(* One create_json call on each input and each setting of the flags *)

InitJson ==
    /\ opts \in JsonFlags
    /\ data \in JsonInputs
    /\ pc = "call"
    /\ out = NoOut
    /\ _schema_list = EmptyBuffers
    /\ calls = 0
    /\ ref = NoRef
    /\ th = NoThreads

CreateJson ==
    /\ pc = "call"
    /\ out' = create_json(data, opts)
    /\ pc' = "done"
    /\ UNCHANGED <<opts, data, _schema_list, calls, ref, th>>

NextJson == CreateJson

SpecJson == InitJson /\ [][NextJson]_vars

-----------------------------------------------------------------------------
(* Reading a produced text back: what the claims compare against *)

\* text.split('\n'): the entries between the newline characters
RECURSIVE SplitFrom(_, _)
SplitFrom(text, cur) ==
    IF text = <<>> THEN <<cur>>
    ELSE IF Head(text) = NL THEN <<cur>> \o SplitFrom(Tail(text), <<>>)
    ELSE SplitFrom(Tail(text), Append(cur, Head(text)))

SplitLines(text) == SplitFrom(text, <<>>)

\* the characters the escapes \b \f \r \t decode to, none of which is a
\* character of the model's strings
Control(c) == <<"control", c>>

BadLiteral == [ok |-> FALSE]

\* standard JSON decoding of the inside of a string literal: an unescaped
\* quote or newline is an error, a backslash starts an escape (\u needs four
\* hexadecimal digits, which no text of the model supplies)
RECURSIVE DecodeBody(_, _)
DecodeBody(body, acc) ==
    IF body = <<>> THEN [ok |-> TRUE, s |-> acc]
    ELSE IF Head(body) \in {QUOTE, NL} THEN BadLiteral
    ELSE IF Head(body) # BSL
    THEN DecodeBody(Tail(body), Append(acc, Head(body)))
    ELSE IF Len(body) < 2 THEN BadLiteral
    ELSE LET e == body[2]
             rest == SubSeq(body, 3, Len(body))
         IN  CASE e \in {QUOTE, BSL, "/"} -> DecodeBody(rest, Append(acc, e))
               [] e = "n" -> DecodeBody(rest, Append(acc, NL))
               [] e \in {"b", "f", "r", "t"} ->
                    DecodeBody(rest, Append(acc, Control(e)))
               [] OTHER -> BadLiteral

\* standard JSON decoding of a text as one string literal
DecodeString(text) ==
    IF Len(text) < 2 \/ text[1] # QUOTE \/ text[Len(text)] # QUOTE
    THEN BadLiteral
    ELSE DecodeBody(SubSeq(text, 2, Len(text) - 1), <<>>)

\* text is a quoted JSON string literal on one physical line that decodes to s
IsLiteralOf(text, s) ==
    /\ \A i \in 1..Len(text) : text[i] # NL
    /\ DecodeString(text) = [ok |-> TRUE, s |-> s]

IsJsonValue(v) == ~HasForeign(v)

Called == pc = "done"

-----------------------------------------------------------------------------
(* Claims about create_json, checked under SpecJson *)

\* C1: for a root Array of JSON values, create_json with lines set fails
\* with the unsupported-shape error exactly when a direct element of the
\* root is an Array, and otherwise returns a text; with lines unset the
\* same value comes back as one bracketed JSON document and no error.
C1_LinesFailIffNestedArray ==
    (Called /\ data.t = "list" /\ IsJsonValue(data)) =>
        LET nested == \E i \in 1..Len(data.items) : data.items[i].t = "list"
        IN  IF opts.lines
            THEN /\ (out = Raise("ValueError")) <=> nested
                 /\ ~nested => out.kind = "return"
            ELSE /\ out.kind = "return"
                 /\ Len(out.text) >= 2
                 /\ out.text[1] = "["
                 /\ out.text[Len(out.text)] = "]"

\* a root Array whose second element, not its first, is an Array was
\* refused in lines mode
C1_Witness ==
    /\ Called /\ opts.lines /\ data.t = "list" /\ IsJsonValue(data)
    /\ Len(data.items) = 2
    /\ data.items[1].t # "list" /\ data.items[2].t = "list"
    /\ out = Raise("ValueError")

\* C2: a value holding a foreign node anywhere makes create_json fail with
\* the non-serializable error in every mode.
C2_ForeignAlwaysRejected ==
    (Called /\ HasForeign(data)) => out = Raise("TypeError")

\* what lines mode is to print for one element
ElementRendering(e, o) ==
    CASE e.t = "null" -> IF o.nulls THEN <<"n", "u", "l", "l">> ELSE <<>>
      [] e.t = "str" ->
           IF o.raw THEN ReplaceNewline(e.s)
           ELSE <<QUOTE>> \o ReplaceNewline(e.s) \o <<QUOTE>>
      [] OTHER -> Dumps(e, <<",">>, <<":">>, -1, 0)

FlatJsonArray(v) ==
    /\ v.t = "list" /\ IsJsonValue(v)
    /\ \A i \in 1..Len(v.items) : v.items[i].t # "list"

\* C4: for a non-empty root Array without Array elements, the text returned
\* in lines mode, split at the newlines, has one entry per element, entry i
\* being the rendering of element i.
C4_OneEntryPerElement ==
    (Called /\ opts.lines /\ FlatJsonArray(data) /\ data.items # <<>>) =>
        /\ out.kind = "return"
        /\ SplitLines(out.text) =
               [i \in 1..Len(data.items) |->
                   ElementRendering(data.items[i], opts)]

\* C5: a String rendered with raw unset, as the root value or as an element
\* of a flat root Array in lines mode, comes out as a quoted JSON string
\* literal on one physical line that standard JSON decoding maps back to it.
C5_StringLiteralRoundTrip ==
    (Called /\ ~opts.raw) =>
        /\ data.t = "str" =>
              out.kind = "return" /\ IsLiteralOf(out.text, data.s)
        /\ ( /\ opts.lines /\ FlatJsonArray(data) /\ data.items # <<>>
             /\ \A i \in 1..Len(data.items) : data.items[i].t = "str" ) =>
              /\ out.kind = "return"
              /\ Len(SplitLines(out.text)) = Len(data.items)
              /\ \A i \in 1..Len(data.items) :
                    IsLiteralOf(SplitLines(out.text)[i], data.items[i].s)

-----------------------------------------------------------------------------
(* One create_schema call on each input, on a fresh Schema instance *)

\* string leaves: plain, and the ones whose content reads as a JSON
\* boolean, null or number
SchemaStrings ==
    {<<"a">>, <<"t", "r", "u", "e">>, <<"n", "u", "l", "l">>,
     <<"1", ".", "5">>, <<"1", "2">>}

SchemaScalars ==
    {Null, Bool(FALSE), Num(1), Num(-3)} \cup {Str(s) : s \in SchemaStrings}

\* a key holding a newline
KeyNL == <<"k", NL>>

\* keys long enough for the path, the literal and the type comment to add
\* up to just under, exactly and just over the column budget
LongKeys == {Repeat("k", n) : n \in (MemberBudget - 20)..(MemberBudget - 11)}

\* dicts of at most n scalar members under the given keys, in the order of
\* the keys
RECURSIVE ScalarDicts(_, _)
ScalarDicts(keys, n) ==
    IF keys = <<>> \/ n = 0 THEN {<<>>}
    ELSE ScalarDicts(Tail(keys), n)
         \cup {<<Member(Head(keys), v)>> \o rest :
                  v \in SchemaScalars, rest \in ScalarDicts(Tail(keys), n - 1)}

\* containers met below the root: empty ones, Arrays in Arrays, Objects in
\* Objects, Arrays under a key
NestedValues ==
    {Null, Num(1), Str(<<"a">>),
     List(<<>>), Dict(<<>>), List(<<Num(1)>>), List(<<List(<<Null>>)>>),
     Dict(<<Member(KeyK, Num(1))>>),
     Dict(<<Member(KeyK, List(<<Num(1), Str(<<"a">>)>>))>>),
     Dict(<<Member(KeyK, Dict(<<Member(KeyJ, Null)>>)), Member(KeyJ, Bool(TRUE))>>),
     Dict(<<Member(KeyK, List(<<>>)), Member(KeyJ, Dict(<<>>))>>),
     Str(<<"t", "r", "u", "e">>),
     Dict(<<Member(KeyK, Str(<<"1", ".", "5">>))>>)}

SchemaInputs ==
    SchemaScalars
    \cup {List(items) : items \in SeqsUpTo(SchemaScalars, MaxLen)}
    \cup {Dict(items) : items \in ScalarDicts(<<KeyK, KeyNL, KeyJ>>, MaxLen)}
    \cup {List(items) : items \in SeqsUpTo(NestedValues, MaxLen)}
    \cup {Dict(<<Member(KeyK, v)>>) : v \in NestedValues}
    \cup {Dict(<<Member(k, v)>>) : k \in LongKeys, v \in SchemaScalars}
    \cup {Dict(<<Member(k, List(<<v>>))>>) : k \in LongKeys, v \in SchemaScalars}

SchemaFlags == {o \in Flags : ~o.compact /\ ~o.nulls /\ ~o.raw /\ ~o.lines}

InitSchema ==
    /\ opts \in SchemaFlags
    /\ data \in SchemaInputs
    /\ pc = "call"
    /\ out = NoOut
    /\ _schema_list = EmptyBuffers
    /\ calls = 0
    /\ ref = NoRef
    /\ th = NoThreads

\* schema.create_schema(data) on instance 1
CreateSchema ==
    /\ pc = "call"
    /\ LET r == create_schema(_schema_list[1], data, opts)
       IN  /\ out' = [kind |-> "return", lines |-> r.lines, text |-> r.text]
           /\ _schema_list' = [_schema_list EXCEPT ![1] = r.buffer]
    /\ pc' = "done"
    /\ calls' = calls + 1
    /\ UNCHANGED <<opts, data, ref, th>>

NextSchema == CreateSchema

SpecSchema == InitSchema /\ [][NextSchema]_vars

-----------------------------------------------------------------------------
(* Claims about one create_schema call, checked under SpecSchema *)

\* the leaves (scalars and nulls) of v, depth first, Object members in
\* insertion order and Array elements in index order
RECURSIVE Leaves(_)
RECURSIVE LeavesOfAll(_)
Leaves(v) ==
    IF v.t \in {"list", "dict"} THEN LeavesOfAll(Children(v)) ELSE <<v>>

LeavesOfAll(vs) ==
    IF vs = <<>> THEN <<>> ELSE Leaves(Head(vs)) \o LeavesOfAll(Tail(vs))

\* the JSON literal of a leaf
Literal(leaf) == Dumps(leaf, <<",", SP>>, <<":", SP>>, -1, 0)

EndsWith(text, suffix) ==
    /\ Len(text) >= Len(suffix)
    /\ SubSeq(text, Len(text) - Len(suffix) + 1, Len(text)) = suffix

\* line is a schema line giving the leaf as its value
LineOfLeaf(line, leaf) ==
    EndsWith(rstrip(line), <<SP, "=", SP>> \o Literal(leaf) \o <<";">>)

StringComment == TypeComment(<<"s", "t", "r", "i", "n", "g">>)

\* the type comment the claim expects for a String leaf of content s
QuirkComment(s) ==
    IF s = <<"t", "r", "u", "e">> \/ s = <<"f", "a", "l", "s", "e">>
    THEN TypeComment(<<"b", "o", "o", "l", "e", "a", "n">>)
    ELSE IF s = <<"n", "u", "l", "l">> THEN TypeComment(<<"n", "u", "l", "l">>)
    ELSE IF isdigit(RemoveFirstDot(s))
    THEN TypeComment(<<"n", "u", "m", "b", "e", "r">>)
    ELSE StringComment

\* C6 as stated: with types set, a String leaf whose content is literally
\* true or false is annotated (boolean), null (null), digits with at most
\* one decimal point (number), in both branches.
C6_StringMisclassified ==
    (Called /\ opts.types) =>
        \A i \in 1..Len(out.lines) :
            Leaves(data)[i].t = "str" =>
                EndsWith(out.lines[i], QuirkComment(Leaves(data)[i].s))

\* C6 as amended: with types set, every String leaf is annotated (string),
\* whatever its content, in the object-member and in the terminal branch,
\* because the literal that is classified carries its quotes.
C6_StringAlwaysString ==
    (Called /\ opts.types) =>
        /\ Len(out.lines) = Len(Leaves(data))
        /\ \A i \in 1..Len(out.lines) :
              Leaves(data)[i].t = "str" => EndsWith(out.lines[i], StringComment)

\* the String "true" as an Array element and the String "1.5" as an Object
\* member were both annotated (string)
C6_Witness ==
    /\ Called /\ opts.types
    /\ data = List(<<Str(<<"t", "r", "u", "e">>),
                     Dict(<<Member(KeyK, Str(<<"1", ".", "5">>))>>)>>)
    /\ Len(out.lines) = 2
    /\ EndsWith(out.lines[1], StringComment)
    /\ EndsWith(out.lines[2], StringComment)

\* C7: with types unset every line ends with the ; that follows the
\* literal, with no trailing space, for object members and terminals alike.
C7_NoPaddingWithoutTypes ==
    (Called /\ ~opts.types) =>
        \A i \in 1..Len(out.lines) :
            out.lines[i][Len(out.lines[i])] = ";"

\* where the type comment of a line starts: no key and no literal of the
\* inputs holds a slash
CommentAt(line) ==
    CHOOSE i \in 1..Len(line) : line[i] = "/" /\ line[i + 1] = "/"

\* C10: with types set, in every line at least one space separates the ;
\* after the literal from the type comment.
C10_SpaceBeforeComment ==
    (Called /\ opts.types) =>
        \A i \in 1..Len(out.lines) :
            LET line == out.lines[i]
            IN  /\ \E j \in 1..(Len(line) - 1) : line[j] = "/" /\ line[j + 1] = "/"
                /\ CommentAt(line) > 1
                /\ line[CommentAt(line) - 1] = SP

-----------------------------------------------------------------------------
(* Sequential create_schema calls on one Schema instance, the caller       *)
(* setting opts.types between them                                        *)

SeqInputs ==
    {Num(1), Str(<<"a">>), Dict(<<>>),
     Dict(<<Member(KeyK, Num(1))>>),
     Dict(<<Member(KeyK, List(<<Num(1), Str(<<"a">>)>>))>>),
     List(<<List(<<Null>>)>>)}
    \cup {List(items) : items \in SeqsUpTo({Num(1)}, MaxLen)}

NoFlags == [compact |-> FALSE, nulls |-> FALSE, raw |-> FALSE,
            lines |-> FALSE, types |-> FALSE, mono |-> FALSE]

InitSeq ==
    /\ opts = NoFlags
    /\ data = Null
    /\ pc = "call"
    /\ out = NoOut
    /\ _schema_list = EmptyBuffers
    /\ calls = 0
    /\ ref = NoRef
    /\ th = NoThreads

\* the caller sets opts.types
SetTypes ==
    /\ calls < MaxCalls
    /\ opts' = [opts EXCEPT !.types = ~opts.types]
    /\ pc' = "call"
    /\ UNCHANGED <<data, out, _schema_list, calls, ref, th>>

\* schema.create_schema(v) on instance 1; remember says whether this call
\* is the one later calls are compared with
CallSchema(v, remember) ==
    /\ calls < MaxCalls
    /\ LET r == create_schema(_schema_list[1], v, opts)
       IN  /\ out' = [kind |-> "return", lines |-> r.lines, text |-> r.text]
           /\ _schema_list' = [_schema_list EXCEPT ![1] = r.buffer]
           /\ ref' = IF remember /\ ~ref.set
                     THEN [set |-> TRUE, data |-> v, opts |-> opts,
                           text |-> r.text, between |-> FALSE]
                     ELSE IF ref.set /\ v # ref.data
                     THEN [ref EXCEPT !.between = TRUE]
                     ELSE ref
    /\ data' = v
    /\ pc' = "done"
    /\ calls' = calls + 1
    /\ UNCHANGED <<opts, th>>

NextSeq ==
    \/ SetTypes
    \/ \E v \in SeqInputs, remember \in BOOLEAN : CallSchema(v, remember)

SpecSeq == InitSeq /\ [][NextSeq]_vars

-----------------------------------------------------------------------------
(* Two create_schema calls running concurrently, on one Schema instance or *)
(* on two, their steps interleaved: every append to the list, the join and *)
(* the clearing are single steps                                           *)

Threads == {1, 2}

ConcInputs ==
    {Num(1), List(<<Num(1), Null>>), Dict(<<Member(KeyK, Str(<<"a">>))>>),
     List(<<>>)}

StartThread(inst, v) ==
    [inst |-> inst, data |-> v, pc |-> "gen",
     todo |-> <<CallOp(v, <<>>)>>, result |-> <<>>]

InitConc ==
    /\ opts \in {o \in SchemaFlags : ~o.mono}
    /\ data = Null
    /\ pc = "call"
    /\ out = NoOut
    /\ _schema_list = EmptyBuffers
    /\ calls = 0
    /\ ref = NoRef
    /\ \E i \in Instances, v \in ConcInputs, w \in ConcInputs :
           th = <<StartThread(1, v), StartThread(i, w)>>

\* one step of self._schema_gen in thread t: the next activation is
\* entered, or the next line is appended to the instance's list
GenStep(t) ==
    /\ th[t].pc = "gen"
    /\ LET step == Head(th[t].todo)
           rest == Tail(th[t].todo)
           todo == IF step.op = "call"
                   THEN SchemaBody(step.src, step.path, opts) \o rest
                   ELSE rest
       IN  /\ _schema_list' =
                 IF step.op = "line"
                 THEN [_schema_list EXCEPT
                          ![th[t].inst] = Append(@, step.text)]
                 ELSE _schema_list
           /\ th' = [th EXCEPT ![t].todo = todo,
                               ![t].pc = IF todo = <<>> THEN "join" ELSE "gen"]
    /\ UNCHANGED <<opts, data, pc, out, calls, ref>>

\* myschema = '\n'.join(self._schema_list)
JoinStep(t) ==
    /\ th[t].pc = "join"
    /\ th' = [th EXCEPT ![t].result = join(<<NL>>, _schema_list[th[t].inst]),
                        ![t].pc = "clear"]
    /\ UNCHANGED <<opts, data, pc, out, _schema_list, calls, ref>>

\* self._schema_list *= 0 ; return myschema
ClearStep(t) ==
    /\ th[t].pc = "clear"
    /\ _schema_list' =
          [_schema_list EXCEPT ![th[t].inst] = ClearedBuffer(@)]
    /\ th' = [th EXCEPT ![t].pc = "done"]
    /\ UNCHANGED <<opts, data, pc, out, calls, ref>>

NextConc == \E t \in Threads : GenStep(t) \/ JoinStep(t) \/ ClearStep(t)

SpecConc == InitConc /\ [][NextConc]_vars

\* C8: each of two concurrent create_schema calls returns exactly the lines
\* of its own input in their own order, also when both calls go through
\* the same Schema instance.
C8_ConcurrentCallsIndependent ==
    \A t \in Threads :
        th[t].pc = "done" =>
            th[t].result =
                join(<<NL>>, _schema_gen(<<>>, th[t].data, <<>>, opts))

=============================================================================
